---- MODULE Spec2Model ----
(***************************************************************************)
(* Model of the grid backpack: the BackpackSystem class (bounds check,     *)
(* occupancy build, first-fit organize) and the App component's drag and   *)
(* drop handlers that keep the committed item list.                        *)
(***************************************************************************)
EXTENDS Integers, Sequences, FiniteSets, TLC

VARIABLES
    backpackItems,  \* App state: the committed item list
    dragging,       \* App state: the DraggingState, or NoDrag
    nextId,         \* number of instance ids crypto.randomUUID has handed out
    rows,           \* BackpackSystem.rows of the system under call
    cols,           \* BackpackSystem.cols
    items,          \* BackpackSystem.items
    call,           \* the last call made on the system (operation and arguments)
    ret             \* what that call returned

vars == <<backpackItems, dragging, nextId, rows, cols, items, call, ret>>

\* ------------------------------------------------------------------ bounds

\* instance ids handed out in one run of the App
MaxInstances == 2
\* pointer positions of a release inside the container, in pixels from its corner
MousePx == {0, 48, 360, 392}
\* the item types the staging area hands over
StagedTypes == {"potion", "gem", "boots"}

\* grids of up to MaxDim x MaxDim cells, and the application's grid
MaxDim == 2
\* items in the list of a system that is asked canPlaceItem
MaxListed == 2
\* "ghost" is an item type the catalog does not have
ListedTypes == {"potion", "boots", "ghost"}
ListedXs == {-1, 0, 1}
ListedYs == {0}
CandidateTypes == {"potion", "shield", "boots"}
CandidateCoords == {-1, 0, 1}
\* items in the list handed to organize
MaxOrganized == 4
\* items of a valid arrangement handed to organize, with their corners in the
\* top-left 2 x 2 cells of a 3 x 3 grid, a 2 x 3 grid and the application's grid
MaxArranged == 2
ArrangedTypes == {"gem", "potion", "boots", "shield"}
ArrangedCoords == {0, 1}
OrganizedTypes == {"gem", "potion", "boots", "shield", "sword", "ghost"}

\* ------------------------------------------------------------------ constants

CELL_SIZE == 48
GRID_ROWS == 8
GRID_COLS == 8

\* null / undefined where an instance id is expected (real ids are 1, 2, ...)
NoInstance == 0

\* the catalog; id, name and color play no part in the logic
ITEM_DEFINITIONS ==
    [ potion |-> [shape |-> << <<1>>, <<1>> >>, width |-> 1, height |-> 2],
      sword  |-> [shape |-> << <<0, 1, 0>>, <<0, 1, 0>>, <<1, 1, 1>>, <<0, 1, 0>> >>,
                  width |-> 3, height |-> 4],
      shield |-> [shape |-> << <<1, 1>>, <<1, 1>> >>, width |-> 2, height |-> 2],
      bow    |-> [shape |-> << <<1, 0>>, <<1, 0>>, <<1, 1>> >>, width |-> 2, height |-> 3],
      gem    |-> [shape |-> << <<1>> >>, width |-> 1, height |-> 1],
      boots  |-> [shape |-> << <<1, 1>>, <<1, 0>> >>, width |-> 2, height |-> 2] ]

\* a PlacedItem
PlacedItem(id, defId, x, y) ==
    [instanceId |-> id, defId |-> defId, x |-> x, y |-> y, rotation |-> 0]

\* defs[defId] is defined (not undefined)
HasDef(defs, defId) == defId \in DOMAIN defs

\* shape[r][c] === 1, with the code's 0-based r and c
ShapeCell(def, r, c) == def.shape[r + 1][c + 1] = 1

\* ------------------------------------------------------------------ BackpackSystem

\* Array.from({length: rows}, () => Array(cols).fill(v))
FilledGrid(nrows, ncols, v) == [gy \in 0 .. nrows - 1 |-> [gx \in 0 .. ncols - 1 |-> v]]

\* getOccupancyGrid: the placeholder returns the freshly allocated grid
getOccupancyGrid(nrows, ncols, list, ignoreInstanceId) ==
    FilledGrid(nrows, ncols, NoInstance)

\* variant: the whole bounding box of the item is marked, holes included
MarkItemBoundingBox(grid, nrows, ncols, item, def) ==
    [gy \in 0 .. nrows - 1 |-> [gx \in 0 .. ncols - 1 |->
        IF /\ gy - item.y \in 0 .. def.height - 1
           /\ gx - item.x \in 0 .. def.width - 1
        THEN item.instanceId
        ELSE grid[gy][gx]]]

\* the loops over one item's shape in getOccupancyGridWithDefs
MarkItem(grid, nrows, ncols, item, def) ==
    [gy \in 0 .. nrows - 1 |-> [gx \in 0 .. ncols - 1 |->
        IF /\ gy - item.y \in 0 .. def.height - 1
           /\ gx - item.x \in 0 .. def.width - 1
           /\ ShapeCell(def, gy - item.y, gx - item.x)
        THEN item.instanceId
        ELSE grid[gy][gx]]]

RECURSIVE MarkItems(_, _, _, _, _, _, _)
\* the for-of loop of getOccupancyGridWithDefs from item k on
MarkItems(grid, nrows, ncols, list, defs, ignoreInstanceId, k) ==
    IF k > Len(list) THEN grid
    ELSE IF list[k].instanceId = ignoreInstanceId
              \/ ~HasDef(defs, list[k].defId)
         THEN MarkItems(grid, nrows, ncols, list, defs, ignoreInstanceId, k + 1)
         ELSE MarkItems(MarkItem(grid, nrows, ncols, list[k], defs[list[k].defId]),
                        nrows, ncols, list, defs, ignoreInstanceId, k + 1)

getOccupancyGridWithDefs(nrows, ncols, list, defs, ignoreInstanceId) ==
    MarkItems(FilledGrid(nrows, ncols, NoInstance), nrows, ncols, list, defs,
              ignoreInstanceId, 1)

\* variant: an out-of-range coordinate is clamped into the grid, not rejected
canPlaceItemClamped(nrows, ncols, list, itemDef, x, y, ignoreInstanceId) ==
    IF itemDef.width > ncols \/ itemDef.height > nrows
    THEN FALSE
    ELSE LET grid == getOccupancyGrid(nrows, ncols, list, ignoreInstanceId)
             maxX == ncols - itemDef.width
             maxY == nrows - itemDef.height
             cx == IF x < 0 THEN 0 ELSE IF x > maxX THEN maxX ELSE x
             cy == IF y < 0 THEN 0 ELSE IF y > maxY THEN maxY ELSE y
         IN  \A r \in 0 .. itemDef.height - 1 : \A c \in 0 .. itemDef.width - 1 :
                ShapeCell(itemDef, r, c) => grid[cy + r][cx + c] = NoInstance

\* variant: the bounds check is off by one at the right and bottom edges
canPlaceItemStrict(nrows, ncols, list, itemDef, x, y, ignoreInstanceId) ==
    IF x < 0 \/ y < 0 \/ x + itemDef.width >= ncols \/ y + itemDef.height >= nrows
    THEN FALSE
    ELSE LET grid == getOccupancyGrid(nrows, ncols, list, ignoreInstanceId)
         IN  \A r \in 0 .. itemDef.height - 1 : \A c \in 0 .. itemDef.width - 1 :
                ShapeCell(itemDef, r, c) => grid[y + r][x + c] = NoInstance

canPlaceItem(nrows, ncols, list, itemDef, x, y, ignoreInstanceId) ==
    IF x < 0 \/ y < 0 \/ x + itemDef.width > ncols \/ y + itemDef.height > nrows
    THEN FALSE
    ELSE LET grid == getOccupancyGrid(nrows, ncols, list, ignoreInstanceId)
         IN  \A r \in 0 .. itemDef.height - 1 : \A c \in 0 .. itemDef.width - 1 :
                ShapeCell(itemDef, r, c) => grid[y + r][x + c] = NoInstance

\* defA.width * defA.height in the sort comparator
Area(defs, item) == defs[item.defId].width * defs[item.defId].height

RECURSIVE InsertSortedBeforeTies(_, _, _)
\* variant: an unstable sort that puts an item in front of its ties
InsertSortedBeforeTies(sorted, item, defs) ==
    IF sorted = <<>> THEN <<item>>
    ELSE IF Area(defs, Head(sorted)) > Area(defs, item)
         THEN <<Head(sorted)>> \o InsertSortedBeforeTies(Tail(sorted), item, defs)
         ELSE <<item>> \o sorted

RECURSIVE InsertSortedAscending(_, _, _)
\* variant: the comparator is areaA - areaB, smallest area first
InsertSortedAscending(sorted, item, defs) ==
    IF sorted = <<>> THEN <<item>>
    ELSE IF Area(defs, Head(sorted)) <= Area(defs, item)
         THEN <<Head(sorted)>> \o InsertSortedAscending(Tail(sorted), item, defs)
         ELSE <<item>> \o sorted

RECURSIVE InsertSorted(_, _, _)
\* Array.prototype.sort is stable: with the comparator areaB - areaA an item goes
\* behind every item of greater or equal area that came before it in the input
InsertSorted(sorted, item, defs) ==
    IF sorted = <<>> THEN <<item>>
    ELSE IF Area(defs, Head(sorted)) >= Area(defs, item)
         THEN <<Head(sorted)>> \o InsertSorted(Tail(sorted), item, defs)
         ELSE <<item>> \o sorted

RECURSIVE SortedItems(_, _, _)
\* [...this.items].sort(...) over the first k items
SortedItems(list, defs, k) ==
    IF k = 0 THEN <<>>
    ELSE InsertSorted(SortedItems(list, defs, k - 1), list[k], defs)

\* the collision test of one scan position against tempGrid
Fits(def, tempGrid, x, y) ==
    \A r \in 0 .. def.height - 1 : \A c \in 0 .. def.width - 1 :
        ShapeCell(def, r, c) => ~tempGrid[y + r][x + c]

RECURSIVE ScanFromColumnMajor(_, _, _, _, _, _)
\* variant: the scan runs down each column before it moves right
ScanFromColumnMajor(def, tempGrid, nrows, ncols, x, y) ==
    IF x > ncols - def.width THEN [placed |-> FALSE, x |-> 0, y |-> 0]
    ELSE IF y > nrows - def.height
         THEN ScanFromColumnMajor(def, tempGrid, nrows, ncols, x + 1, 0)
         ELSE IF Fits(def, tempGrid, x, y)
              THEN [placed |-> TRUE, x |-> x, y |-> y]
              ELSE ScanFromColumnMajor(def, tempGrid, nrows, ncols, x, y + 1)

RECURSIVE ScanFrom(_, _, _, _, _, _)
\* the y/x scan loops of organize, resumed at (x, y); the first fit, or placed = false
ScanFrom(def, tempGrid, nrows, ncols, x, y) ==
    IF y > nrows - def.height THEN [placed |-> FALSE, x |-> 0, y |-> 0]
    ELSE IF x > ncols - def.width
         THEN ScanFrom(def, tempGrid, nrows, ncols, 0, y + 1)
         ELSE IF Fits(def, tempGrid, x, y)
              THEN [placed |-> TRUE, x |-> x, y |-> y]
              ELSE ScanFrom(def, tempGrid, nrows, ncols, x + 1, y)

\* variant: the placed item's cells are not marked
MarkTempNone(tempGrid, def, x, y) == tempGrid

\* "Mark tempGrid": the cells of def at (x, y) become true
MarkTemp(tempGrid, def, x, y) ==
    [gy \in DOMAIN tempGrid |-> [gx \in DOMAIN tempGrid[gy] |->
        IF /\ gy - y \in 0 .. def.height - 1
           /\ gx - x \in 0 .. def.width - 1
           /\ ShapeCell(def, gy - y, gx - x)
        THEN TRUE
        ELSE tempGrid[gy][gx]]]

RECURSIVE PlaceFromStopAtFailure(_, _, _, _, _, _, _)
\* variant: the loop ends at the first item that fits nowhere
PlaceFromStopAtFailure(sorted, defs, nrows, ncols, newItems, tempGrid, k) ==
    IF k > Len(sorted) THEN newItems
    ELSE LET item == sorted[k]
             def == defs[item.defId]
             pos == ScanFrom(def, tempGrid, nrows, ncols, 0, 0)
         IN  IF pos.placed
             THEN PlaceFromStopAtFailure(sorted, defs, nrows, ncols,
                            Append(newItems, [item EXCEPT !.x = pos.x, !.y = pos.y]),
                            MarkTemp(tempGrid, def, pos.x, pos.y), k + 1)
             ELSE newItems

RECURSIVE PlaceFrom(_, _, _, _, _, _, _)
\* the for-of loop of organize over sortedItems from item k on
PlaceFrom(sorted, defs, nrows, ncols, newItems, tempGrid, k) ==
    IF k > Len(sorted) THEN newItems
    ELSE LET item == sorted[k]
             def == defs[item.defId]
             pos == ScanFrom(def, tempGrid, nrows, ncols, 0, 0)
         IN  IF pos.placed
             THEN PlaceFrom(sorted, defs, nrows, ncols,
                            Append(newItems, [item EXCEPT !.x = pos.x, !.y = pos.y]),
                            MarkTemp(tempGrid, def, pos.x, pos.y), k + 1)
             ELSE PlaceFrom(sorted, defs, nrows, ncols, newItems, tempGrid, k + 1)

\* reading .width (or .height) of an undefined definition raises a TypeError: in
\* the comparator when there are two or more items, in the scan loop otherwise
OrganizeThrows(list, defs) == \E k \in DOMAIN list : ~HasDef(defs, list[k].defId)

\* organize: the returned list, or threw = TRUE when the call raises
organize(nrows, ncols, list, defs) ==
    IF OrganizeThrows(list, defs)
    THEN [threw |-> TRUE, items |-> <<>>]
    ELSE [threw |-> FALSE,
          items |-> PlaceFrom(SortedItems(list, defs, Len(list)), defs, nrows, ncols,
                              <<>>, FilledGrid(nrows, ncols, FALSE), 1)]

\* ------------------------------------------------------------------ App

NoDrag == [source |-> "none"]

\* Math.round(num / den) for den > 0: halves round towards plus infinity
MathRound(num, den) == (2 * num + den) \div (2 * den)

\* handleClear
HandleClear ==
    /\ backpackItems' = <<>>
    /\ UNCHANGED <<dragging, nextId, rows, cols, items, call, ret>>

\* handleOrganize; a call that raises leaves the state as it was
HandleOrganize ==
    LET organized == organize(GRID_ROWS, GRID_COLS, backpackItems, ITEM_DEFINITIONS)
    IN  /\ backpackItems' = IF organized.threw THEN backpackItems ELSE organized.items
        /\ UNCHANGED <<dragging, nextId, rows, cols, items, call, ret>>

\* handleDragStartFromStaging: the staging area hands over a body of type defId.
\* The staging area calls it from the physics engine's 'startdrag', which takes
\* a press of the primary button: it cannot come while that button holds a drag.
HandleDragStartFromStaging(defId) ==
    /\ dragging = NoDrag
    /\ nextId < MaxInstances
    /\ dragging' = [source |-> "staging", defId |-> defId, instanceId |-> NoInstance,
                    offset |-> [x |-> CELL_SIZE \div 2, y |-> CELL_SIZE \div 2]]
    /\ UNCHANGED <<backpackItems, nextId, rows, cols, items, call, ret>>

\* variant: the picked-up item stays in the list
WithoutInstanceKept(list, instanceId) == list

\* prev.filter(i => i.instanceId !== instanceId)
WithoutInstance(list, instanceId) ==
    SelectSeq(list, LAMBDA i : i.instanceId # instanceId)

\* handlePickupFromBackpack, called by the mousedown handler of the rendered
\* item backpackItems[k] with that item's instanceId, x and y. The handler takes
\* a press of any button and does not look at the drag in progress.
HandlePickupFromBackpack(k) ==
    /\ k \in DOMAIN backpackItems
    /\ LET clicked == backpackItems[k]
           first == CHOOSE j \in DOMAIN backpackItems :
                        /\ backpackItems[j].instanceId = clicked.instanceId
                        /\ \A h \in 1 .. j - 1 :
                               backpackItems[h].instanceId # clicked.instanceId
           item == backpackItems[first]
           def == ITEM_DEFINITIONS[item.defId]
       IN  /\ backpackItems' = WithoutInstance(backpackItems, clicked.instanceId)
           /\ dragging' = [source |-> "backpack", defId |-> item.defId,
                           instanceId |-> item.instanceId,
                           originalX |-> clicked.x, originalY |-> clicked.y,
                           offset |-> [x |-> (def.width * CELL_SIZE) \div 2,
                                       y |-> (def.height * CELL_SIZE) \div 2]]
    /\ UNCHANGED <<nextId, rows, cols, items, call, ret>>

\* handleMouseUp: the pointer is released outside the backpack container
\* (inside = FALSE) or at (mx, my) pixels from the container's top-left corner
HandleMouseUp(inside, mx, my) ==
    /\ dragging # NoDrag
    /\ LET gx == MathRound(mx - dragging.offset.x, CELL_SIZE)
           gy == MathRound(my - dragging.offset.y, CELL_SIZE)
           def == ITEM_DEFINITIONS[dragging.defId]
           dropped == inside /\ canPlaceItem(GRID_ROWS, GRID_COLS, backpackItems,
                                             def, gx, gy, NoInstance)
           fresh == dragging.instanceId = NoInstance
       IN  IF dropped
           THEN /\ backpackItems' =
                       Append(backpackItems,
                              PlacedItem(IF fresh THEN nextId + 1 ELSE dragging.instanceId,
                                         dragging.defId, gx, gy))
                /\ nextId' = IF fresh THEN nextId + 1 ELSE nextId
           ELSE /\ backpackItems' =
                       IF dragging.source = "backpack"
                       THEN Append(backpackItems,
                                   PlacedItem(dragging.instanceId, dragging.defId,
                                              dragging.originalX, dragging.originalY))
                       ELSE backpackItems
                /\ nextId' = nextId
    /\ dragging' = NoDrag
    /\ UNCHANGED <<rows, cols, items, call, ret>>

NoCall == [op |-> "none"]
NoRet == [threw |-> FALSE]

Init ==
    /\ backpackItems = <<>>
    /\ dragging = NoDrag
    /\ nextId = 0
    /\ rows = GRID_ROWS
    /\ cols = GRID_COLS
    /\ items = <<>>
    /\ call = NoCall
    /\ ret = NoRet

Next ==
    \/ HandleClear
    \/ HandleOrganize
    \/ \E defId \in StagedTypes : HandleDragStartFromStaging(defId)
    \/ \E k \in 1 .. MaxInstances : HandlePickupFromBackpack(k)
    \/ \E mx \in MousePx, my \in MousePx : HandleMouseUp(TRUE, mx, my)
    \/ HandleMouseUp(FALSE, 0, 0)

Spec == Init /\ [][Next]_vars

\* ------------------------------------------------------------------ calls on a BackpackSystem

\* the item lists of at most maxLen items, instance ids 1, 2, ... in list order
ItemLists(types, xs, ys, maxLen) ==
    UNION { { [k \in 1 .. n |-> PlacedItem(k, f[k][1], f[k][2], f[k][3])] :
                f \in [1 .. n -> types \X xs \X ys] } : n \in 0 .. maxLen }

GridSizes == ((1 .. MaxDim) \X (1 .. MaxDim)) \cup {<<GRID_ROWS, GRID_COLS>>}

InitSystem(lists) ==
    /\ backpackItems = <<>>
    /\ dragging = NoDrag
    /\ nextId = 0
    /\ \E size \in GridSizes : rows = size[1] /\ cols = size[2]
    /\ items \in lists
    /\ call = NoCall
    /\ ret = NoRet

\* sys.canPlaceItem(ITEM_DEFINITIONS[defId], x, y, ignoreInstanceId)
CallCanPlaceItem(defId, x, y, ignoreInstanceId) ==
    /\ call = NoCall
    /\ call' = [op |-> "canPlaceItem", defId |-> defId, x |-> x, y |-> y,
                ignore |-> ignoreInstanceId]
    /\ ret' = [threw |-> FALSE,
               value |-> canPlaceItem(rows, cols, items, ITEM_DEFINITIONS[defId],
                                      x, y, ignoreInstanceId)]
    /\ UNCHANGED <<backpackItems, dragging, nextId, rows, cols, items>>

\* sys.getOccupancyGridWithDefs(ITEM_DEFINITIONS, ignoreInstanceId)
CallGetOccupancyGridWithDefs(ignoreInstanceId) ==
    /\ call = NoCall
    /\ call' = [op |-> "getOccupancyGridWithDefs", ignore |-> ignoreInstanceId]
    /\ ret' = [threw |-> FALSE,
               grid |-> getOccupancyGridWithDefs(rows, cols, items, ITEM_DEFINITIONS,
                                                 ignoreInstanceId)]
    /\ UNCHANGED <<backpackItems, dragging, nextId, rows, cols, items>>

\* sys.organize(ITEM_DEFINITIONS)
CallOrganize ==
    /\ call = NoCall
    /\ call' = [op |-> "organize"]
    /\ ret' = organize(rows, cols, items, ITEM_DEFINITIONS)
    /\ UNCHANGED <<backpackItems, dragging, nextId, rows, cols, items>>

\* new BackpackSystem(rows, cols, organized).organize(ITEM_DEFINITIONS) on the
\* list a first organize returned
CallOrganizeAgain ==
    /\ call.op = "organize"
    /\ ~ret.threw
    /\ items' = ret.items
    /\ call' = [op |-> "organizeAgain"]
    /\ ret' = organize(rows, cols, ret.items, ITEM_DEFINITIONS)
    /\ UNCHANGED <<backpackItems, dragging, nextId, rows, cols>>

InitPlace == InitSystem(ItemLists(ListedTypes, ListedXs, ListedYs, MaxListed))

NextPlace ==
    \/ \E defId \in CandidateTypes, x \in CandidateCoords, y \in CandidateCoords,
          ig \in 0 .. MaxListed : CallCanPlaceItem(defId, x, y, ig)
    \/ \E ig \in 0 .. MaxListed : CallGetOccupancyGridWithDefs(ig)

SpecPlace == InitPlace /\ [][NextPlace]_vars

InitOrganize == InitSystem(ItemLists(OrganizedTypes, {0}, {0}, MaxOrganized))

NextOrganize ==
    \/ CallOrganize
    \/ CallOrganizeAgain

SpecOrganize == InitOrganize /\ [][NextOrganize]_vars

\* ------------------------------------------------------------------ properties

\* the grid cells <<gx, gy>> a shape occupies with its top-left corner at (x, y)
Cells(def, x, y) ==
    { <<x + rc[2], y + rc[1]>> :
        rc \in { q \in (0 .. def.height - 1) \X (0 .. def.width - 1) :
                    ShapeCell(def, q[1], q[2]) } }

\* the cells of a placed item; an item of a type the catalog lacks has none
ItemCells(item) ==
    IF HasDef(ITEM_DEFINITIONS, item.defId)
    THEN Cells(ITEM_DEFINITIONS[item.defId], item.x, item.y)
    ELSE {}

\* the bounding box of def at (x, y) lies inside a grid of nrows x ncols
InBounds(def, x, y, nrows, ncols) ==
    x >= 0 /\ y >= 0 /\ x + def.width <= ncols /\ y + def.height <= nrows

\* the cells of the listed items other than the ignored instance
OtherCells(list, ignoreInstanceId) ==
    UNION { ItemCells(list[k]) :
              k \in { j \in DOMAIN list : list[j].instanceId # ignoreInstanceId } }

CalledCanPlace == call.op = "canPlaceItem"
CandidateDef == ITEM_DEFINITIONS[call.defId]

\* C1: a candidate that passes the bounds check is rejected when one of its
\* cells is a cell of a listed item (other than the ignored one) and accepted
\* when its cells are disjoint from all of them.
C1_CollisionDecides ==
    (CalledCanPlace /\ InBounds(CandidateDef, call.x, call.y, rows, cols)) =>
        (ret.value <=>
            Cells(CandidateDef, call.x, call.y) \cap OtherCells(items, call.ignore) = {})

\* no two distinct items of the list share a grid cell
NoOverlap(list) ==
    \A i \in DOMAIN list : \A j \in DOMAIN list :
        i # j => ItemCells(list[i]) \cap ItemCells(list[j]) = {}

\* C2: whenever no drag is in progress, no two committed items of the backpack
\* occupy the same grid cell.
C2_CommittedItemsDisjoint == dragging = NoDrag => NoOverlap(backpackItems)

\* the call asks about listed item k at its own in-bounds position with its own shape
OwnPosition(k) ==
    /\ CalledCanPlace
    /\ k \in DOMAIN items
    /\ call.defId = items[k].defId
    /\ call.x = items[k].x
    /\ call.y = items[k].y
    /\ InBounds(CandidateDef, call.x, call.y, rows, cols)

\* C3: asked about a listed item at its own in-bounds position, canPlaceItem
\* answers true when the item's id is the ignored id and false when no id is
\* ignored.
C3_SelfIgnore ==
    \A k \in 1 .. MaxListed :
        OwnPosition(k) =>
            /\ call.ignore = items[k].instanceId => ret.value
            /\ call.ignore = NoInstance => ~ret.value

\* C4: for every shape, grid size and item list, canPlaceItem answers false
\* when the candidate's bounding box leaves the grid on any side.
C4_OutOfBoundsRejected ==
    (CalledCanPlace /\ ~InBounds(CandidateDef, call.x, call.y, rows, cols)) =>
        ret.value = FALSE

C4_Witness ==
    /\ CalledCanPlace
    /\ items # <<>>
    /\ call.x >= 0 /\ call.y >= 0
    /\ call.x + CandidateDef.width > cols
    /\ call.x < cols
    /\ ret.value = FALSE

\* C5: with an empty item list canPlaceItem answers true for every candidate
\* whose bounding box lies inside the grid.
C5_EmptyListAccepts ==
    (CalledCanPlace /\ items = <<>> /\ InBounds(CandidateDef, call.x, call.y, rows, cols)) =>
        ret.value = TRUE

C5_Witness ==
    /\ CalledCanPlace
    /\ items = <<>>
    /\ call.x > 0
    /\ call.x + CandidateDef.width = cols
    /\ call.y + CandidateDef.height = rows
    /\ ret.value = TRUE

Organized == call.op = "organize" /\ ~ret.threw
DefOf(item) == ITEM_DEFINITIONS[item.defId]

\* C6: organize returns at most as many items as it received, each inside the
\* grid with its whole bounding box, and no two of them on a common cell.
C6_OrganizeCountBoundsDisjoint ==
    Organized =>
        /\ Len(ret.items) <= Len(items)
        /\ \A k \in DOMAIN ret.items :
               InBounds(DefOf(ret.items[k]), ret.items[k].x, ret.items[k].y, rows, cols)
        /\ NoOverlap(ret.items)

C6_Witness ==
    /\ Organized
    /\ Len(ret.items) >= 2
    /\ Len(ret.items) < Len(items)
    /\ \E k \in DOMAIN ret.items : ret.items[k].defId = "boots"

\* the cells of the returned items in front of index k
CellsBefore(k) == UNION { ItemCells(ret.items[j]) : j \in 1 .. k - 1 }

\* (x1, y1) comes before (x2, y2) in the row-major scan
ScansBefore(x1, y1, x2, y2) == y1 < y2 \/ (y1 = y2 /\ x1 < x2)

\* C7: every returned item sits at the first position of the row-major scan
\* that is free of the items placed before it; no earlier position is free.
C7_FirstFit ==
    Organized =>
        \A k \in DOMAIN ret.items :
            LET it == ret.items[k]
                def == DefOf(it)
            IN  /\ Cells(def, it.x, it.y) \cap CellsBefore(k) = {}
                /\ \A y \in 0 .. rows - def.height : \A x \in 0 .. cols - def.width :
                       ScansBefore(x, y, it.x, it.y) =>
                           Cells(def, x, y) \cap CellsBefore(k) # {}

C7_Witness ==
    /\ Organized
    /\ \E k \in DOMAIN ret.items :
           /\ ret.items[k].x > 0
           /\ ret.items[k].y > 0
           /\ ret.items[k].x + DefOf(ret.items[k]).width < cols

\* the input index of a returned item (instance ids number the input list)
InputIndex(item) == CHOOSE k \in DOMAIN items : items[k].instanceId = item.instanceId

FourGems == [k \in 1 .. 4 |-> PlacedItem(k, "gem", 0, 0)]

\* C8: the returned items are in descending order of bounding-box area, items
\* of equal area in their input order; four 1x1 items on a 2x2 grid come back
\* at (0,0), (1,0), (0,1), (1,1) in input order.
C8_StableAreaOrder ==
    Organized =>
        /\ \A i \in DOMAIN ret.items : \A j \in DOMAIN ret.items :
               i < j =>
                   /\ Area(ITEM_DEFINITIONS, ret.items[i]) >= Area(ITEM_DEFINITIONS, ret.items[j])
                   /\ Area(ITEM_DEFINITIONS, ret.items[i]) = Area(ITEM_DEFINITIONS, ret.items[j])
                          => InputIndex(ret.items[i]) < InputIndex(ret.items[j])
        /\ (rows = 2 /\ cols = 2 /\ items = FourGems) =>
               ret.items = << PlacedItem(1, "gem", 0, 0), PlacedItem(2, "gem", 1, 0),
                              PlacedItem(3, "gem", 0, 1), PlacedItem(4, "gem", 1, 1) >>

C8_Witness ==
    /\ Organized
    /\ rows = 2 /\ cols = 2
    /\ items = FourGems
    /\ Len(ret.items) = 4

\* a comes before b in the sorted order: greater area, or equal area and
\* earlier in the input
Precedes(a, b) ==
    \/ Area(ITEM_DEFINITIONS, a) > Area(ITEM_DEFINITIONS, b)
    \/ /\ Area(ITEM_DEFINITIONS, a) = Area(ITEM_DEFINITIONS, b)
       /\ a.instanceId < b.instanceId

Returned(item) == \E j \in DOMAIN ret.items : ret.items[j].instanceId = item.instanceId

\* the cells of the returned items that come before item in the sorted order
CellsAtTurn(item) ==
    UNION { ItemCells(ret.items[j]) :
              j \in { h \in DOMAIN ret.items : Precedes(ret.items[h], item) } }

\* some scan position is free for item at its turn
FitsAtTurn(item) ==
    \E y \in 0 .. rows - DefOf(item).height : \E x \in 0 .. cols - DefOf(item).width :
        Cells(DefOf(item), x, y) \cap CellsAtTurn(item) = {}

\* C9: an item is missing from the result exactly when no scan position is
\* free for it at its turn; items after it are still placed, none is returned
\* twice; two 1x1 items on a 1x1 grid give the first one at (0,0) alone.
C9_DroppedIffNoFit ==
    Organized =>
        /\ \A k \in DOMAIN items : Returned(items[k]) <=> FitsAtTurn(items[k])
        /\ \A i \in DOMAIN ret.items : \A j \in DOMAIN ret.items :
               ret.items[i].instanceId = ret.items[j].instanceId => i = j
        /\ (rows = 1 /\ cols = 1
              /\ items = << PlacedItem(1, "gem", 0, 0), PlacedItem(2, "gem", 0, 0) >>)
               => ret.items = << PlacedItem(1, "gem", 0, 0) >>

C9_Witness ==
    /\ Organized
    /\ \E i \in DOMAIN items : \E j \in DOMAIN items :
           /\ ~Returned(items[i])
           /\ Returned(items[j])
           /\ Precedes(items[i], items[j])

\* the list without the items whose type the catalog lacks
KnownItems(list) == SelectSeq(list, LAMBDA i : HasDef(ITEM_DEFINITIONS, i.defId))

\* C10: with an item of unknown type in the list every operation completes
\* without raising and answers as if that item were not in the list.
C10_UnknownTypeIgnored ==
    (call.op # "none" /\ KnownItems(items) # items) =>
        /\ ~ret.threw
        /\ call.op = "organize" =>
               ret.items = organize(rows, cols, KnownItems(items), ITEM_DEFINITIONS).items

BuiltOccupancy == call.op = "getOccupancyGridWithDefs"

\* the listed items that own cell (gx, gy): not ignored, of a known type, with
\* an occupied shape cell there
OwnersOf(gx, gy) ==
    { items[k].instanceId :
        k \in { j \in DOMAIN items :
                  /\ items[j].instanceId # call.ignore
                  /\ <<gx, gy>> \in ItemCells(items[j]) } }

\* C11: for pairwise non-overlapping items the occupancy build returns a
\* rows x cols grid whose cell (gx, gy) holds id i exactly when item i is
\* listed, not ignored, of a known type and occupied there; every other cell
\* is null and cells outside the grid are dropped; boots at (0,0) mark (0,0),
\* (1,0), (0,1) and leave (1,1) free.
C11_OccupancyExact ==
    (BuiltOccupancy /\ NoOverlap(items)) =>
        /\ DOMAIN ret.grid = 0 .. rows - 1
        /\ \A gy \in 0 .. rows - 1 :
               /\ DOMAIN ret.grid[gy] = 0 .. cols - 1
               /\ \A gx \in 0 .. cols - 1 :
                      IF OwnersOf(gx, gy) = {}
                      THEN ret.grid[gy][gx] = NoInstance
                      ELSE OwnersOf(gx, gy) = {ret.grid[gy][gx]}

C11_Witness ==
    /\ BuiltOccupancy
    /\ rows = GRID_ROWS /\ cols = GRID_COLS
    /\ call.ignore = NoInstance
    /\ items = << PlacedItem(1, "boots", 0, 0) >>
    /\ ret.grid[0][0] = 1 /\ ret.grid[0][1] = 1 /\ ret.grid[1][0] = 1
    /\ ret.grid[1][1] = NoInstance

\* how many items of the list carry the instance id
Count(list, instanceId) ==
    Cardinality({ k \in DOMAIN list : list[k].instanceId = instanceId })

\* the item with this id sits in the list at the drag's original coordinate or
\* at a coordinate that validates
ReturnedFromDrag(list, drag) ==
    \E k \in DOMAIN list :
        /\ list[k].instanceId = drag.instanceId
        /\ list[k].defId = drag.defId
        /\ \/ list[k].x = drag.originalX /\ list[k].y = drag.originalY
           \/ InBounds(ITEM_DEFINITIONS[drag.defId], list[k].x, list[k].y,
                       GRID_ROWS, GRID_COLS)

\* one step taken while an item picked up from the backpack is being dragged
DragStep ==
    dragging.source = "backpack" =>
        /\ Count(backpackItems, dragging.instanceId) = 0
        /\ \/ /\ dragging' = dragging
              /\ Count(backpackItems', dragging.instanceId) = 0
           \/ /\ dragging' = NoDrag
              /\ Count(backpackItems', dragging.instanceId) = 1
              /\ ReturnedFromDrag(backpackItems', dragging)

\* C12: an item picked up from the backpack is absent from the committed list
\* for the whole drag, and the drag ends with that instance id in the list
\* exactly once, at the dropped or at its original coordinate; it is never
\* lost and never duplicated.
C12_PickedUpItemReturns == [][DragStep]_vars

\* C13: every committed item's bounding box lies inside the grid.
C13_CommittedItemsInBounds ==
    \A k \in DOMAIN backpackItems :
        InBounds(ITEM_DEFINITIONS[backpackItems[k].defId],
                 backpackItems[k].x, backpackItems[k].y, GRID_ROWS, GRID_COLS)

C13_Witness ==
    /\ dragging = NoDrag
    /\ Len(backpackItems) = 2
    /\ \E k \in DOMAIN backpackItems :
           /\ backpackItems[k].x + ITEM_DEFINITIONS[backpackItems[k].defId].width = GRID_COLS
           /\ backpackItems[k].y + ITEM_DEFINITIONS[backpackItems[k].defId].height = GRID_ROWS

\* C14: no two items of the committed list have the same instance id.
C14_InstanceIdsUnique ==
    \A i \in DOMAIN backpackItems : \A j \in DOMAIN backpackItems :
        backpackItems[i].instanceId = backpackItems[j].instanceId => i = j

C14_Witness ==
    /\ dragging = NoDrag
    /\ Len(backpackItems) = 2
    /\ nextId = 2
    /\ backpackItems[1].instanceId > backpackItems[2].instanceId

\* C17: organize applied to the list organize returned gives that list back:
\* the same items in the same order at the same coordinates, none dropped.
C17_OrganizeIdempotent ==
    call.op = "organizeAgain" => (~ret.threw /\ ret.items = items)

C17_Witness ==
    /\ call.op = "organizeAgain"
    /\ ~ret.threw
    /\ Len(ret.items) >= 3
    /\ \E k \in DOMAIN ret.items : ret.items[k].y > 0
    /\ \E i \in DOMAIN ret.items : \E j \in DOMAIN ret.items :
           i # j /\ ret.items[i].defId = ret.items[j].defId

\* ------------------------------------------------------------------ organize on valid arrangements

\* every item of the list is inside the grid and no two share a cell
ValidArrangement(list, nrows, ncols) ==
    /\ \A k \in DOMAIN list :
           /\ HasDef(ITEM_DEFINITIONS, list[k].defId)
           /\ InBounds(ITEM_DEFINITIONS[list[k].defId], list[k].x, list[k].y, nrows, ncols)
    /\ NoOverlap(list)

ArrangedSizes == { <<3, 3>>, <<2, 3>>, <<GRID_ROWS, GRID_COLS>> }

\* a system built over a backpack that holds a valid arrangement
InitArranged ==
    /\ backpackItems = <<>>
    /\ dragging = NoDrag
    /\ nextId = 0
    /\ \E size \in ArrangedSizes : rows = size[1] /\ cols = size[2]
    /\ items \in { list \in ItemLists(ArrangedTypes, ArrangedCoords, ArrangedCoords, MaxArranged) :
                     ValidArrangement(list, rows, cols) }
    /\ call = NoCall
    /\ ret = NoRet

NextArranged == CallOrganize

SpecArranged == InitArranged /\ [][NextArranged]_vars

InstanceIds(list) == { list[k].instanceId : k \in DOMAIN list }

\* C15 as claimed: organize returns every item of an input whose items are all
\* in bounds and pairwise non-overlapping.
C15_ValidInputKept ==
    (Organized /\ ValidArrangement(items, rows, cols)) =>
        /\ Len(ret.items) = Len(items)
        /\ InstanceIds(ret.items) = InstanceIds(items)

\* C15 as amended: of an input whose items are all in bounds and pairwise
\* non-overlapping, organize returns the item that is first in the sorted
\* order, at (0,0), and returns no instance id that was not in the input.
C15_FirstSortedKept ==
    (Organized /\ ValidArrangement(items, rows, cols)) =>
        /\ InstanceIds(ret.items) \subseteq InstanceIds(items)
        /\ \A k \in DOMAIN items :
               (\A j \in DOMAIN items : j # k => Precedes(items[k], items[j])) =>
                   /\ ret.items # <<>>
                   /\ ret.items[1] = [items[k] EXCEPT !.x = 0, !.y = 0]

C15_Witness ==
    /\ Organized
    /\ ValidArrangement(items, rows, cols)
    /\ Len(items) = 2
    /\ Len(ret.items) = 1
    /\ ret.items[1].instanceId = 1
    /\ items[1].x > 0

\* ------------------------------------------------------------------ grid cells the code indexes

\* the cells <<gx, gy>> one pass over the shape at (x, y) indexes: every
\* occupied shape cell in r, c order up to and including the first one that
\* that lies in taken (the occupied cells of the grid), where the loops break
CellsIndexed(def, x, y, taken) ==
    { <<x + rc[2], y + rc[1]>> :
        rc \in { q \in (0 .. def.height - 1) \X (0 .. def.width - 1) :
                   /\ ShapeCell(def, q[1], q[2])
                   /\ \A p \in (0 .. def.height - 1) \X (0 .. def.width - 1) :
                          (/\ ShapeCell(def, p[1], p[2])
                           /\ (p[1] < q[1] \/ (p[1] = q[1] /\ p[2] < q[2])))
                              => <<x + p[2], y + p[1]>> \notin taken } }

\* variant: the occupancy lookup runs without the bounds check in front of it
canPlaceItemIndexedUnchecked(nrows, ncols, list, itemDef, x, y, ignoreInstanceId) ==
    CellsIndexed(itemDef, x, y, {})

\* the cells of grid that canPlaceItem reads (grid[gridY][gridX])
canPlaceItemIndexed(nrows, ncols, list, itemDef, x, y, ignoreInstanceId) ==
    IF x < 0 \/ y < 0 \/ x + itemDef.width > ncols \/ y + itemDef.height > nrows
    THEN {}
    ELSE LET grid == getOccupancyGrid(nrows, ncols, list, ignoreInstanceId)
         IN  CellsIndexed(itemDef, x, y,
                          { g \in (0 .. ncols - 1) \X (0 .. nrows - 1) :
                              grid[g[2]][g[1]] # NoInstance })

\* the scan positions <<x, y>> the loops of organize can visit for def
ScanRange(def, nrows, ncols) ==
    (0 .. ncols - def.width) \X (0 .. nrows - def.height)

RECURSIVE organizeIndexedFrom(_, _, _, _, _, _)
\* the cells of tempGrid that organize reads or writes from item k on
organizeIndexedFrom(sorted, defs, nrows, ncols, tempGrid, k) ==
    IF k > Len(sorted) THEN {}
    ELSE LET def == defs[sorted[k].defId]
             pos == ScanFrom(def, tempGrid, nrows, ncols, 0, 0)
             visited == { p \in ScanRange(def, nrows, ncols) :
                            \/ ~pos.placed
                            \/ p[2] < pos.y
                            \/ (p[2] = pos.y /\ p[1] <= pos.x) }
             taken == { g \in (0 .. ncols - 1) \X (0 .. nrows - 1) : tempGrid[g[2]][g[1]] }
             read == UNION { CellsIndexed(def, p[1], p[2], taken) : p \in visited }
             written == IF pos.placed
                        THEN CellsIndexed(def, pos.x, pos.y, {})
                        ELSE {}
             next == IF pos.placed THEN MarkTemp(tempGrid, def, pos.x, pos.y)
                     ELSE tempGrid
         IN  read \cup written
                \cup organizeIndexedFrom(sorted, defs, nrows, ncols, next, k + 1)

\* the cells of tempGrid that organize reads or writes; a call that raises
\* does so before it touches the grid
organizeIndexed(nrows, ncols, list, defs) ==
    IF OrganizeThrows(list, defs) THEN {}
    ELSE organizeIndexedFrom(SortedItems(list, defs, Len(list)), defs, nrows, ncols,
                             FilledGrid(nrows, ncols, FALSE), 1)

InitCore == InitPlace

NextCore == NextPlace \/ NextOrganize

SpecCore == InitCore /\ [][NextCore]_vars

\* the cells <<gx, gy>> of the grid
GridCells == (0 .. cols - 1) \X (0 .. rows - 1)

CandidateIndexed ==
    canPlaceItemIndexed(rows, cols, items, CandidateDef, call.x, call.y, call.ignore)

\* the item's bounding box is wider or taller than the grid
TooLarge(item) == DefOf(item).width > cols \/ DefOf(item).height > rows

\* C16: canPlaceItem and organize index no grid cell outside the grid:
\* canPlaceItem reads occupancy only when its bounds check passed, organize
\* visits only scan positions whose bounding box is inside the grid, and an
\* item wider or taller than the grid is visited at no position and dropped.
C16_IndexInsideGrid ==
    /\ CalledCanPlace =>
           /\ CandidateIndexed \subseteq GridCells
           /\ ~InBounds(CandidateDef, call.x, call.y, rows, cols) => CandidateIndexed = {}
    /\ call.op = "organize" =>
           /\ organizeIndexed(rows, cols, items, ITEM_DEFINITIONS) \subseteq GridCells
           /\ ~ret.threw =>
                  \A k \in DOMAIN items :
                      TooLarge(items[k]) =>
                          /\ ScanRange(DefOf(items[k]), rows, cols) = {}
                          /\ ~Returned(items[k])

C16_Witness ==
    /\ Organized
    /\ \E k \in DOMAIN items : TooLarge(items[k])
    /\ ret.items # <<>>
    /\ organizeIndexed(rows, cols, items, ITEM_DEFINITIONS) = GridCells

====
